---- MODULE Spec2Model ----
(***************************************************************************)
(* Model of the aws_lambda_function_url resource                           *)
(* (internal/service/lambda/function_url.go): the four CRUD handlers, the  *)
(* importer and the cors expand/flatten helpers, run against a model of    *)
(* the Lambda API calls the handlers issue.                                *)
(*                                                                         *)
(* Conventions                                                             *)
(*  - a Go string is a sequence of tokens; ":" is the only token that      *)
(*    strings.Split cares about, every other token is opaque text;         *)
(*  - a Go pointer / optional field is <<>> (nil) or <<v>>;                *)
(*  - an error is its AWS error code, "" is the nil error;                 *)
(*  - every handler is one operator returning the resource data, the       *)
(*    remote state, the remote calls it issued (in order) and its result   *)
(*    ("ok", "error" for a diag.Errorf return, "panic" for a Go runtime    *)
(*    panic).                                                              *)
(***************************************************************************)
EXTENDS Integers, Sequences, FiniteSets, TLC

\* Longest import ID, in tokens, that the importer is run on.
MaxIdLen == 3

\* Tokens an ID is made of.
Alphabet == {"f", "q", ":"}

\* The import IDs: the non-empty strings of at most MaxIdLen tokens.
Strings == UNION {[1..k -> Alphabet] : k \in 1..MaxIdLen}

\* lambda.FunctionUrlAuthType_Values()
FunctionUrlAuthTypeNone == "NONE"

FunctionUrlAuthTypeAwsIam == "AWS_IAM"

AuthTypes == {FunctionUrlAuthTypeNone, FunctionUrlAuthTypeAwsIam}

\* lambda.ErrCodeResourceNotFoundException, and the other codes the API answers with
ErrCodeResourceNotFoundException == "ResourceNotFoundException"

ErrCodeResourceConflictException == "ResourceConflictException"

ErrCodeServiceException == "ServiceException"

\* What may go wrong with one remote call independently of the remote state:
\* nothing, the function (or a just-created URL, read too early) is not found,
\* or the service fails.
Faults == {"", ErrCodeResourceNotFoundException, ErrCodeServiceException}

\* Configurations the resource is created with.
FunctionNames == {<<"f">>}

Qualifiers == {<<>>, <<"q">>}

\* A cors block as d.Get returns it (three of the six attributes; the other
\* three sets are handled exactly like allow_origins).
CorsBlocks == {[allow_credentials |-> TRUE, allow_origins |-> {"*"}, max_age |-> 60]}

\* The "cors" attribute: no block, an empty block (a nil element), a block.
CorsConfigs == {<<>>, << <<>> >>} \cup {<< <<b>> >> : b \in CorsBlocks}


(***************************************************************************)
(* strings.Split and the ARN / URL strings                                 *)
(***************************************************************************)
HasColon(s) == \E i \in 1..Len(s) : s[i] = ":"

FirstColon(s) == CHOOSE i \in 1..Len(s) : s[i] = ":" /\ \A j \in 1..(i - 1) : s[j] # ":"

RECURSIVE Split(_)
\* strings.Split(s, ":"): the segments between the colons, in order; a
\* string without a colon (the empty string included) is its only segment.
Split(s) ==
    IF ~HasColon(s) THEN <<s>>
    ELSE LET i == FirstColon(s)
         IN  <<SubSeq(s, 1, i - 1)>> \o Split(SubSeq(s, i + 1, Len(s)))

\* The key the Lambda API addresses a function URL by.
Key(name, qualifier) == [name |-> name, qualifier |-> qualifier]

\* output.FunctionArn of the URL configuration of a (qualified) function.
FunctionArn(key) ==
    <<"arn", ":", "function", ":">> \o key.name
        \o (IF key.qualifier = <<>> THEN <<>> ELSE <<":">> \o key.qualifier)

\* output.FunctionUrl
FunctionUrl(key) == <<"https">> \o key.name \o key.qualifier

(***************************************************************************)
(* The remote service: the function URL configurations and the public      *)
(* resource-policy statement of every function version it knows.           *)
(***************************************************************************)
\* The functions (unqualified and qualified) that exist remotely.
RemoteKeys == {Key(n, q) : n \in FunctionNames, q \in Qualifiers}

\* A request: the fields the handlers fill in; an unset pointer field is <<>>.
EmptyReq ==
    [FunctionName |-> <<>>, Qualifier |-> <<>>, AuthType |-> <<>>, Cors |-> <<>>,
     Action |-> <<>>, FunctionUrlAuthType |-> <<>>, Principal |-> <<>>,
     StatementId |-> <<>>]

EmptyOut == [FunctionArn |-> <<>>, FunctionUrl |-> <<>>, AuthType |-> <<>>, Cors |-> <<>>]

\* &lambda.Cors{}: every field nil.
EmptyCors == [AllowCredentials |-> <<>>, AllowOrigins |-> {}, MaxAge |-> <<>>]

ReqKey(req) ==
    Key(req.FunctionName[1], IF req.Qualifier = <<>> THEN <<>> ELSE req.Qualifier[1])

ConfigOut(key, c) ==
    [FunctionArn |-> <<FunctionArn(key)>>, FunctionUrl |-> <<FunctionUrl(key)>>,
     AuthType |-> <<c.AuthType>>, Cors |-> c.Cors]

Answer(err, out, r) == [err |-> err, out |-> out, r |-> r]

\* CreateFunctionUrlConfig: fails when the function is unknown or already
\* has a URL configuration, otherwise stores the configuration.
RemoteCreate(r, req) ==
    LET key == ReqKey(req)
    IN  IF key \notin RemoteKeys THEN Answer(ErrCodeResourceNotFoundException, EmptyOut, r)
        ELSE IF r.cfg[key] # <<>> THEN Answer(ErrCodeResourceConflictException, EmptyOut, r)
        ELSE LET c == [AuthType |-> req.AuthType[1], Cors |-> req.Cors]
             IN  Answer("", ConfigOut(key, c), [r EXCEPT !.cfg[key] = <<c>>])

\* AddPermission: a statement ID that already exists is rejected.
RemoteAddPermission(r, req) ==
    LET key == ReqKey(req)
    IN  IF key \notin RemoteKeys THEN Answer(ErrCodeResourceNotFoundException, EmptyOut, r)
        ELSE IF key \in r.perms THEN Answer(ErrCodeResourceConflictException, EmptyOut, r)
        ELSE Answer("", EmptyOut, [r EXCEPT !.perms = @ \cup {key}])

RemoteGet(r, req) ==
    LET key == ReqKey(req)
    IN  IF key \notin RemoteKeys \/ r.cfg[key] = <<>>
        THEN Answer(ErrCodeResourceNotFoundException, EmptyOut, r)
        ELSE Answer("", ConfigOut(key, r.cfg[key][1]), r)

\* UpdateFunctionUrlConfig: a field absent from the request keeps its value.
RemoteUpdate(r, req) ==
    LET key == ReqKey(req)
    IN  IF key \notin RemoteKeys \/ r.cfg[key] = <<>>
        THEN Answer(ErrCodeResourceNotFoundException, EmptyOut, r)
        ELSE LET old == r.cfg[key][1]
                 c == [AuthType |-> IF req.AuthType = <<>> THEN old.AuthType ELSE req.AuthType[1],
                       Cors |-> IF req.Cors = <<>> THEN old.Cors ELSE req.Cors]
             IN  Answer("", ConfigOut(key, c), [r EXCEPT !.cfg[key] = <<c>>])

RemoteDelete(r, req) ==
    LET key == ReqKey(req)
    IN  IF key \notin RemoteKeys \/ r.cfg[key] = <<>>
        THEN Answer(ErrCodeResourceNotFoundException, EmptyOut, r)
        ELSE Answer("", EmptyOut, [r EXCEPT !.cfg[key] = <<>>])

\* One call of the connection: an injected fault answers with its code and
\* changes nothing, otherwise the service answers.
RemoteCall(r, api, req, fault) ==
    IF fault # "" THEN Answer(fault, EmptyOut, r)
    ELSE CASE api = "CreateFunctionUrlConfig" -> RemoteCreate(r, req)
           [] api = "AddPermission" -> RemoteAddPermission(r, req)
           [] api = "GetFunctionUrlConfig" -> RemoteGet(r, req)
           [] api = "UpdateFunctionUrlConfig" -> RemoteUpdate(r, req)
           [] api = "DeleteFunctionUrlConfig" -> RemoteDelete(r, req)

\* The record of one remote call in the trace of a handler.
Call(api, req, ans) == [api |-> api, req |-> req, err |-> ans.err, out |-> ans.out]

(***************************************************************************)
(* The resource data and the cors translation                              *)
(***************************************************************************)
\* A *schema.ResourceData with nothing set.
EmptyData ==
    [id |-> <<>>, function_name |-> <<>>, qualifier |-> <<>>,
     authorization_type |-> "", cors |-> <<>>,
     function_arn |-> <<>>, function_url |-> <<>>]

\* What a handler hands back: the resource data, the remote state, the
\* remote calls it issued and its result.
Res(data, r, trace, res) == [d |-> data, r |-> r, calls |-> trace, result |-> res]

\* d.GetOk(key): ok is false for the zero value.
GetOk(v) == v # <<>>

\* d.HasChange(key): the planned value differs from the value in state.
HasChange(old, new) == old # new

\* The schema type of allow_headers, allow_methods, allow_origins and
\* expose_headers: d.Get hands a TypeSet attribute over as a *schema.Set.
CorsListType == "TypeSet"

\* config["allow_origins"].([]interface{}): the unchecked type assertion
\* holds for a []interface{} value only; on a *schema.Set it panics.
ListAssertionHolds == CorsListType = "TypeList"

\* expandFunctionUrlCorsConfigs: the empty Cors for no block or a nil
\* element; for a block the assertions run first, then the fields are
\* copied, an empty list or a zero max_age staying nil.
expandFunctionUrlCorsConfigs(urlConfigMap) ==
    IF Len(urlConfigMap) = 1 /\ urlConfigMap[1] # <<>>
    THEN LET config == urlConfigMap[1][1]
         IN  IF ~ListAssertionHolds THEN [panic |-> TRUE, cors |-> EmptyCors]
             ELSE [panic |-> FALSE,
                   cors |-> [AllowCredentials |-> <<config.allow_credentials>>,
                             AllowOrigins |-> config.allow_origins,
                             MaxAge |-> IF config.max_age > 0 THEN <<config.max_age>> ELSE <<>>]]
    ELSE [panic |-> FALSE, cors |-> EmptyCors]

\* flattenFunctionUrlCorsConfigs followed by d.Set: nil for a nil Cors,
\* otherwise one block holding the pointed-to values (zero for nil).
flattenFunctionUrlCorsConfigs(cors) ==
    IF cors = <<>> THEN <<>>
    ELSE LET c == cors[1]
         IN  << <<[allow_credentials |->
                        IF c.AllowCredentials = <<>> THEN FALSE ELSE c.AllowCredentials[1],
                   allow_origins |-> c.AllowOrigins,
                   max_age |-> IF c.MaxAge = <<>> THEN 0 ELSE c.MaxAge[1]]>> >>

\* FunctionName and, when d.GetOk("qualifier") is ok, Qualifier.
NameAndQualifier(data) ==
    [EmptyReq EXCEPT !.FunctionName = <<data.function_name>>,
                     !.Qualifier = IF GetOk(data.qualifier) THEN <<data.qualifier>> ELSE <<>>]

(***************************************************************************)
(* The handlers                                                            *)
(***************************************************************************)
\* err != nil
Failed(err) == err # ""

\* Variant: the code comparison never matches.
ErrCodeEqualsNever(err, code) == FALSE

\* tfawserr.ErrCodeEquals(err, lambda.ErrCodeResourceNotFoundException)
ErrCodeEquals(err, code) == err = code

\* Variant: the not-found test without the new-resource exemption.
ReadGoneAlsoNew(err, isNew) == err = ErrCodeResourceNotFoundException

\* Variant: any error of a refresh is taken for a resource that is gone.
ReadGoneAnyError(err, isNew) == ~isNew

\* Read's test for a resource that is gone: the not-found code, and the
\* resource is not the one being created.
ReadGone(err, isNew) == err = ErrCodeResourceNotFoundException /\ ~isNew

\* resourceFunctionURLRead
resourceFunctionURLRead(data, r, isNew, fault) ==
    LET input == NameAndQualifier(data)
        ans == RemoteCall(r, "GetFunctionUrlConfig", input, fault)
        trace == <<Call("GetFunctionUrlConfig", input, ans)>>
    IN  IF Failed(ans.err)
        THEN IF ReadGone(ans.err, isNew)
             THEN Res([data EXCEPT !.id = <<>>], ans.r, trace, "ok")
             ELSE Res(data, ans.r, trace, "error")
        ELSE Res([data EXCEPT !.authorization_type = ans.out.AuthType[1],
                              !.cors = flattenFunctionUrlCorsConfigs(ans.out.Cors),
                              !.function_arn = ans.out.FunctionArn[1],
                              !.function_url = ans.out.FunctionUrl[1]],
                 ans.r, trace, "ok")

\* Variant: the permission is added whatever the authorization type.
NeedsPermissionAlways(authType) == TRUE

\* The test that guards the AddPermission call of create.
NeedsPermission(authType) == authType = FunctionUrlAuthTypeNone

\* Variant: a failed AddPermission clears the ID create has set.
AddPermissionStepClearsId(data, r, fault) ==
    IF data.authorization_type = FunctionUrlAuthTypeNone
    THEN LET input == [EmptyReq EXCEPT !.Action = <<"lambda:InvokeFunctionUrl">>,
                                       !.FunctionName = <<data.function_name>>,
                                       !.FunctionUrlAuthType = <<data.authorization_type>>,
                                       !.Principal = <<"*">>,
                                       !.StatementId = <<"FunctionURLAllowPublicAccess">>]
             ans == RemoteCall(r, "AddPermission", input, fault)
             trace == <<Call("AddPermission", input, ans)>>
         IN  IF ans.err # "" THEN Res([data EXCEPT !.id = <<>>], ans.r, trace, "error")
             ELSE Res(data, ans.r, trace, "ok")
    ELSE Res(data, r, <<>>, "ok")

\* The AddPermission block of create: the public-access statement for the
\* function name, issued when authorization_type is NONE.
AddPermissionStep(data, r, fault) ==
    IF NeedsPermission(data.authorization_type)
    THEN LET input == [EmptyReq EXCEPT !.Action = <<"lambda:InvokeFunctionUrl">>,
                                       !.FunctionName = <<data.function_name>>,
                                       !.FunctionUrlAuthType = <<data.authorization_type>>,
                                       !.Principal = <<"*">>,
                                       !.StatementId = <<"FunctionURLAllowPublicAccess">>]
             ans == RemoteCall(r, "AddPermission", input, fault)
             trace == <<Call("AddPermission", input, ans)>>
         IN  Res(data, ans.r, trace, IF Failed(ans.err) THEN "error" ELSE "ok")
    ELSE Res(data, r, <<>>, "ok")

\* resourceFunctionURLCreate, on the data of a new resource.
resourceFunctionURLCreate(data, r, f1, f2, f3) ==
    LET withCors == GetOk(data.cors) /\ Len(data.cors) > 0
        ex == expandFunctionUrlCorsConfigs(data.cors)
        input == [NameAndQualifier(data) EXCEPT
                      !.AuthType = <<data.authorization_type>>,
                      !.Cors = IF withCors THEN <<ex.cors>> ELSE <<>>]
        ans == RemoteCall(r, "CreateFunctionUrlConfig", input, f1)
        c1 == <<Call("CreateFunctionUrlConfig", input, ans)>>
        d1 == [data EXCEPT !.id = ans.out.FunctionArn[1]]
        perm == AddPermissionStep(d1, ans.r, f2)
        read == resourceFunctionURLRead(perm.d, perm.r, TRUE, f3)
    IN  IF withCors /\ ex.panic THEN Res(data, r, <<>>, "panic")
        ELSE IF Failed(ans.err) THEN Res(data, ans.r, c1, "error")
        ELSE IF perm.result # "ok" THEN Res(perm.d, perm.r, c1 \o perm.calls, "error")
        ELSE Res(read.d, read.r, c1 \o perm.calls \o read.calls, read.result)

\* resourceFunctionURLUpdate: old is the resource as it is in state, data
\* the resource as planned.
resourceFunctionURLUpdate(old, data, r, f1, f2) ==
    LET authChanged == HasChange(old.authorization_type, data.authorization_type)
        corsChanged == HasChange(old.cors, data.cors)
        ex == expandFunctionUrlCorsConfigs(data.cors)
        params == [NameAndQualifier(data) EXCEPT
                       !.AuthType = IF authChanged THEN <<data.authorization_type>> ELSE <<>>,
                       !.Cors = IF corsChanged THEN <<ex.cors>> ELSE <<>>]
        ans == RemoteCall(r, "UpdateFunctionUrlConfig", params, f1)
        c1 == <<Call("UpdateFunctionUrlConfig", params, ans)>>
        read == resourceFunctionURLRead(data, ans.r, FALSE, f2)
    IN  IF corsChanged /\ ex.panic THEN Res(data, r, <<>>, "panic")
        ELSE IF Failed(ans.err) THEN Res(data, ans.r, c1, "error")
        ELSE Res(read.d, read.r, c1 \o read.calls, read.result)

\* Variant: delete looks the URL configuration up before deleting it.
resourceFunctionURLDeleteLookup(data, r, fault) ==
    LET params == [EmptyReq EXCEPT
                       !.FunctionName = <<data.function_name>>,
                       !.Qualifier = IF data.qualifier # <<>> THEN <<data.qualifier>> ELSE <<>>]
        got == RemoteCall(r, "GetFunctionUrlConfig", params, "")
        ans == RemoteCall(got.r, "DeleteFunctionUrlConfig", params, fault)
        trace == <<Call("GetFunctionUrlConfig", params, got),
                   Call("DeleteFunctionUrlConfig", params, ans)>>
    IN  IF ans.err = ErrCodeResourceNotFoundException THEN Res(data, ans.r, trace, "ok")
        ELSE IF ans.err # "" THEN Res(data, ans.r, trace, "error")
        ELSE Res(data, ans.r, trace, "ok")

\* resourceFunctionURLDelete
resourceFunctionURLDelete(data, r, fault) ==
    LET params == NameAndQualifier(data)
        ans == RemoteCall(r, "DeleteFunctionUrlConfig", params, fault)
        trace == <<Call("DeleteFunctionUrlConfig", params, ans)>>
    IN  IF ErrCodeEquals(ans.err, ErrCodeResourceNotFoundException)
        THEN Res(data, ans.r, trace, "ok")
        ELSE IF Failed(ans.err) THEN Res(data, ans.r, trace, "error")
        ELSE Res(data, ans.r, trace, "ok")

\* resourceFunctionUrlImport: indexing idSplit below 0 is a runtime panic.
resourceFunctionUrlImport(data) ==
    LET idSplit == Split(data.id)
        n == Len(idSplit)
    IN  IF n - 2 < 0 THEN [d |-> data, result |-> "panic"]
        ELSE [d |-> [data EXCEPT !.function_name = idSplit[n - 1],
                                 !.qualifier = idSplit[n]],
              result |-> "ok"]

(***************************************************************************)
(* The state machine: the provider framework invoking the handlers         *)
(***************************************************************************)
VARIABLES
    d,        \* the resource data as the last handler left it
    remote,   \* the remote service: cfg (URL configurations), perms (public statements)
    lastOp,   \* the handler that ran last
    args,     \* the resource data that handler was given
    calls,    \* the remote calls it issued, in order
    result,   \* its result
    trip,     \* create/delete round trip in progress
    tainted,  \* the resource is in state from a create that failed
    cuOnly    \* every handler run so far was a successful create or update

vars == <<d, remote, lastOp, args, calls, result, trip, tainted, cuOnly>>

\* The faults injected into the n remote calls a handler may issue: a
\* handler returns at the first call that fails, so one fault at most.
FaultPlans(n) ==
    {[i \in 1..n |-> ""]}
        \cup {[i \in 1..n |-> IF i = k THEN f ELSE ""] : k \in 1..n, f \in Faults \ {""}}

\* A URL configuration that exists before the resource is managed.
ForeignCors == [AllowCredentials |-> <<TRUE>>, AllowOrigins |-> {"*"}, MaxAge |-> <<60>>]

InitialConfigs == {<<>>, <<[AuthType |-> FunctionUrlAuthTypeAwsIam, Cors |-> <<ForeignCors>>]>>}

NoTrip == [stage |-> "none", base |-> <<>>]

Init ==
    /\ d = EmptyData
    /\ \E c \in [RemoteKeys -> InitialConfigs] : remote = [cfg |-> c, perms |-> {}]
    /\ lastOp = "none"
    /\ args = EmptyData
    /\ calls = <<>>
    /\ result = "none"
    /\ trip = NoTrip
    /\ tainted = FALSE
    /\ cuOnly = TRUE

\* Bookkeeping common to every handler run.
Ran(op, data, res) ==
    /\ lastOp' = op
    /\ args' = data
    /\ calls' = res.calls
    /\ result' = res.result
    /\ remote' = res.r
    /\ cuOnly' = (cuOnly /\ op \in {"create", "update"} /\ res.result = "ok")

\* CreateWithoutTimeout: the framework creates a resource that has no ID,
\* from the planned configuration; the data is marked as new.
Create ==
    /\ d.id = <<>>
    /\ \E name \in FunctionNames, qualifier \in Qualifiers, auth \in AuthTypes,
          cors \in CorsConfigs, f \in FaultPlans(3) :
          LET data == [EmptyData EXCEPT !.function_name = name, !.qualifier = qualifier,
                                        !.authorization_type = auth, !.cors = cors]
              res == resourceFunctionURLCreate(data, remote, f[1], f[2], f[3])
          IN  /\ Ran("create", data, res)
              /\ d' = res.d
              /\ trip' = IF res.result = "ok"
                         THEN [stage |-> "created", base |-> <<remote>>]
                         ELSE NoTrip
              /\ tainted' = (res.result # "ok" /\ res.d.id # <<>>)

\* ReadWithoutTimeout: the framework refreshes a resource that is in state.
Read ==
    /\ d.id # <<>>
    /\ \E f \in FaultPlans(1) :
          LET res == resourceFunctionURLRead(d, remote, FALSE, f[1])
          IN  /\ Ran("read", d, res)
              /\ d' = res.d
              /\ trip' = NoTrip
              /\ tainted' = (tainted /\ res.d.id # <<>>)

\* UpdateWithoutTimeout: the framework updates a resource that is in state
\* when authorization_type or cors is planned to change (function_name and
\* qualifier are ForceNew); a tainted resource is replaced, never updated.
Update ==
    /\ d.id # <<>>
    /\ ~tainted
    /\ d.authorization_type \in AuthTypes
    /\ \E auth \in AuthTypes, cors \in CorsConfigs, f \in FaultPlans(2) :
          LET data == [d EXCEPT !.authorization_type = auth, !.cors = cors]
              res == resourceFunctionURLUpdate(d, data, remote, f[1], f[2])
          IN  /\ data # d
              /\ Ran("update", data, res)
              /\ d' = res.d
              /\ trip' = NoTrip
              /\ tainted' = FALSE

\* DeleteWithoutTimeout: the handler leaves the data alone; after a delete
\* without error the framework drops the resource (its ID) from state.  A
\* delete may be issued again with the same function_name and qualifier.
Delete ==
    /\ d.function_name # <<>>
    /\ \E f \in FaultPlans(1) :
          LET res == resourceFunctionURLDelete(d, remote, f[1])
          IN  /\ Ran("delete", d, res)
              /\ d' = IF res.result = "ok" THEN [res.d EXCEPT !.id = <<>>] ELSE res.d
              /\ trip' = IF /\ trip.stage = "created"
                            /\ res.result = "ok"
                            /\ res.calls[1].err = ""
                         THEN [trip EXCEPT !.stage = "deleted"]
                         ELSE NoTrip
              /\ tainted' = (tainted /\ res.result # "ok")

\* Importer.State: the importer runs on data that holds the import ID only.
Import ==
    \E id \in Strings :
        LET data == [EmptyData EXCEPT !.id = id]
            res == resourceFunctionUrlImport(data)
        IN  /\ Ran("import", data, Res(res.d, remote, <<>>, res.result))
            /\ d' = res.d
            /\ trip' = NoTrip
            /\ tainted' = FALSE

Next == Create \/ Read \/ Update \/ Delete

Spec == Init /\ [][Next]_vars

\* The importer on its own, followed by the refresh of what it imported.
NextImport == Import \/ Read

SpecImport == Init /\ [][NextImport]_vars

(***************************************************************************)
(* Properties                                                              *)
(***************************************************************************)
CRUD == {"create", "read", "update", "delete"}

LastCall == calls[Len(calls)]

\* The last remote call of the handler that ran last was api, answered with err.
LastCallWas(api, err) == Len(calls) > 0 /\ LastCall.api = api /\ LastCall.err = err

\* C1: whenever DeleteFunctionUrlConfig answers with ResourceNotFoundException,
\* delete returns no error; it issued that one call only, and a delete of a
\* URL that does not exist remotely is answered that way.
DeleteIdempotent ==
    lastOp = "delete" =>
        /\ LastCallWas("DeleteFunctionUrlConfig", ErrCodeResourceNotFoundException)
               => result = "ok" /\ Len(calls) = 1
        /\ calls[1].err = "" => result = "ok"

\* C1 witness: a delete issued for a resource that is no longer in state (it
\* was deleted before, or never created) is answered not-found and succeeds.
DeleteRepeated ==
    /\ lastOp = "delete"
    /\ args.id = <<>>
    /\ LastCallWas("DeleteFunctionUrlConfig", ErrCodeResourceNotFoundException)
    /\ result = "ok"

\* C2 as stated: every read whose GetFunctionUrlConfig call answers with
\* ResourceNotFoundException clears the ID and returns no error, the read
\* at the end of create and of update included.
ReadNotFoundAlwaysDrops ==
    lastOp \in {"create", "read", "update"}
        /\ LastCallWas("GetFunctionUrlConfig", ErrCodeResourceNotFoundException)
        => result = "ok" /\ d.id = <<>>

\* C2 amended: a read that is not part of create (a refresh, or the read at
\* the end of update) whose call answers not-found clears the ID and
\* returns no error; the read at the end of create returns an error and
\* keeps the ID create has set.
ReadNotFoundDropsUnlessNew ==
    LastCallWas("GetFunctionUrlConfig", ErrCodeResourceNotFoundException) =>
        /\ lastOp \in {"read", "update"} => result = "ok" /\ d.id = <<>>
        /\ lastOp = "create" =>
               result = "error" /\ d.id # <<>> /\ d.id = calls[1].out.FunctionArn[1]

\* C2 witness: the read at the end of a successful update finds the URL gone.
UpdateReadGone ==
    /\ lastOp = "update"
    /\ Len(calls) = 2
    /\ LastCallWas("GetFunctionUrlConfig", ErrCodeResourceNotFoundException)
    /\ d.id = <<>>

\* C3: a remote call that fails with an error other than the not-found code
\* is the last call of the handler, which returns an error; the data is as
\* it was when the call was made (for a refresh: as before the refresh).
ErrorsPassThrough ==
    [][\A i \in 1..Len(calls') :
           (lastOp' \in CRUD
                /\ calls'[i].err \notin {"", ErrCodeResourceNotFoundException})
           => /\ result' = "error"
              /\ i = Len(calls')
              /\ lastOp' = "read" => d' = d
              /\ lastOp' \in {"update", "delete"} => d' = args'
              /\ lastOp' = "create" =>
                     d' = IF i = 1 THEN args'
                          ELSE [args' EXCEPT !.id = calls'[1].out.FunctionArn[1]]]_vars

\* C3 witness: a refresh whose call fails with a service error returns an
\* error and the resource keeps its ID.
ReadServiceError ==
    /\ lastOp = "read"
    /\ LastCallWas("GetFunctionUrlConfig", ErrCodeServiceException)
    /\ result = "error"
    /\ d.id # <<>>

\* C4: for every import ID the importer returns without error, with
\* function_name the second-to-last and qualifier the last segment of the
\* ID split on ":", and the ID unchanged.
ImportSplits ==
    lastOp = "import" =>
        /\ result = "ok"
        /\ d.id = args.id
        /\ LET idSplit == Split(args.id)
           IN  /\ d.function_name = idSplit[Len(idSplit) - 1]
               /\ d.qualifier = idSplit[Len(idSplit)]

\* C5 as stated: every create, read, update and delete issues exactly one
\* remote call.
SingleCall == lastOp \in CRUD => Len(calls) = 1

\* C5 amended: read and delete issue exactly one remote call; create issues
\* at most three and update at most two, and a create or update that
\* returns no error has issued all of its calls (create: three when
\* authorization_type is NONE, else two; update: two).
CallCounts ==
    /\ lastOp \in {"read", "delete"} => Len(calls) = 1
    /\ lastOp = "create" =>
           /\ Len(calls) <= 3
           /\ result = "ok" =>
                  Len(calls) = IF args.authorization_type = FunctionUrlAuthTypeNone
                               THEN 3 ELSE 2
    /\ lastOp = "update" =>
           /\ Len(calls) <= 2
           /\ result = "ok" => Len(calls) = 2

\* C5 witness: a create that succeeded with three remote calls.
CreateThreeCalls == lastOp = "create" /\ result = "ok" /\ Len(calls) = 3

\* C6: a successful create followed by a successful delete leaves the
\* remote service in the state it had before the create.
RoundTripRestoresRemote == trip.stage = "deleted" => remote = trip.base[1]

\* C7: create calls CreateFunctionUrlConfig, then AddPermission, then
\* GetFunctionUrlConfig; AddPermission (with its fixed action, principal and
\* statement ID) is issued iff authorization_type is NONE and the URL was
\* created, the read only after every earlier call succeeded, and the ID
\* is set (to the function ARN) iff the URL was created.
CreateOrder ==
    lastOp = "create" =>
        LET n == Len(calls)
            created == n >= 1 /\ calls[1].err = ""
            permAt == {i \in 1..n : calls[i].api = "AddPermission"}
            readAt == {i \in 1..n : calls[i].api = "GetFunctionUrlConfig"}
        IN  /\ n >= 1 => calls[1].api = "CreateFunctionUrlConfig"
            /\ \A i \in 2..n : calls[i].api # "CreateFunctionUrlConfig"
            /\ permAt # {} <=> (args.authorization_type = FunctionUrlAuthTypeNone /\ created)
            /\ permAt \subseteq {2}
            /\ \A i \in permAt :
                   /\ calls[i].req.Action = <<"lambda:InvokeFunctionUrl">>
                   /\ calls[i].req.Principal = <<"*">>
                   /\ calls[i].req.StatementId = <<"FunctionURLAllowPublicAccess">>
            /\ readAt \subseteq {n}
            /\ \A i \in readAt : \A j \in 1..(i - 1) : calls[j].err = ""
            /\ d.id # <<>> <=> created
            /\ created => d.id = calls[1].out.FunctionArn[1]

\* C7 witness: a create that went through all three calls, in order.
CreateAllThree ==
    /\ lastOp = "create"
    /\ Len(calls) = 3
    /\ calls[2].api = "AddPermission"
    /\ calls[3].api = "GetFunctionUrlConfig"
    /\ d.function_arn # <<>>

\* The AddPermission call of the last create failed after the URL was created.
PermissionFailed ==
    /\ lastOp = "create"
    /\ Len(calls) = 2
    /\ calls[1].err = ""
    /\ calls[2].api = "AddPermission"
    /\ calls[2].err # ""

\* C8: when AddPermission fails after CreateFunctionUrlConfig succeeded,
\* create returns an error, the ID stays set to the function ARN, the
\* created URL configuration stays in place and no delete call is issued.
NoRollback ==
    PermissionFailed =>
        /\ result = "error"
        /\ d.id # <<>>
        /\ d.id = calls[1].out.FunctionArn[1]
        /\ remote.cfg[Key(args.function_name, args.qualifier)] # <<>>
        /\ \A i \in 1..Len(calls) : calls[i].api # "DeleteFunctionUrlConfig"

\* C8 witness: such a partial failure, the statement ID being taken.
PermissionConflict == PermissionFailed /\ calls[2].err = ErrCodeResourceConflictException

\* C9: after successful creates and updates only, a resource whose
\* authorization_type is NONE has the public statement on the function
\* name and qualifier of its URL configuration.
PublicAccess ==
    (cuOnly /\ lastOp # "none" /\ d.id # <<>>
        /\ d.authorization_type = FunctionUrlAuthTypeNone)
    => Key(d.function_name, d.qualifier) \in remote.perms

\* C10: update issues an UpdateFunctionUrlConfig request that carries
\* function_name, the qualifier iff one is set, AuthType iff
\* authorization_type changed and Cors iff cors changed (the empty Cors
\* for a removed block); what the request leaves out keeps its remote value.
UpdateSendsChanges ==
    [][lastOp' = "update" =>
           /\ Len(calls') >= 1
           /\ calls'[1].api = "UpdateFunctionUrlConfig"
           /\ LET req == calls'[1].req
                  key == Key(args'.function_name, args'.qualifier)
              IN  /\ req.FunctionName = <<args'.function_name>>
                  /\ req.Qualifier # <<>> <=> args'.qualifier # <<>>
                  /\ req.Qualifier # <<>> => req.Qualifier = <<args'.qualifier>>
                  /\ req.AuthType # <<>> <=> args'.authorization_type # d.authorization_type
                  /\ req.AuthType # <<>> => req.AuthType = <<args'.authorization_type>>
                  /\ req.Cors # <<>> <=> args'.cors # d.cors
                  /\ (args'.cors # d.cors /\ args'.cors = <<>>) => req.Cors = <<EmptyCors>>
                  /\ calls'[1].err = "" =>
                         /\ req.AuthType = <<>> =>
                                remote'.cfg[key][1].AuthType = remote.cfg[key][1].AuthType
                         /\ req.Cors = <<>> =>
                                remote'.cfg[key][1].Cors = remote.cfg[key][1].Cors]_vars

====
